---- MODULE Spec2Model ----
(***************************************************************************)
(* Model of the Minilogue XD preset decoder: ProgramParser.parse_binary,   *)
(* parse_from_upload and parse_file of src/services/binary_parser.py, the  *)
(* enumerated domains of src/services/enums.py and the ProgramData record  *)
(* of src/services/program_data.py.                                        *)
(*                                                                         *)
(* Bytes are integers 0..255, byte strings are sequences of bytes, Python  *)
(* 0-based indices are kept and translated at the point of access.         *)
(***************************************************************************)
EXTENDS Integers, Sequences, FiniteSets, TLC

VARIABLES call, data, outcome, log

vars == <<call, data, outcome, log>>

(* ------------------------------ bounds --------------------------------- *)

\* number of decode calls recorded in one behaviour
MaxCalls == 2

\* largest number of bytes appended after the 160-byte window
MaxExtra == 2

(* --------------------------- enums.py ---------------------------------- *)

VoiceModeType == 0..4
VcoWave == 0..2
MultiOscType == 0..2
MultiOscNoise == 0..3
MultiOscVPM == 0..15
EGTarget == 0..2
ModFxType == 0..5
ModFxChorus == 0..7
ModFxEnsemble == 0..2
ModFxPhaser == 0..7
ModFxFlanger == 0..7
DelaySubType == 0..19
ReverbSubType == 0..17
AssignTarget == 0..28
CVInMode == 0..2
MicroTuning == (0..22) \cup (128..139)
LFOTargetOsc == 0..3
LFOMode == 0..2
LFOTarget == 0..2
MultiRouting == 0..1
PortamentoMode == 0..1
UserParamType == 0..3

\* the members of the IntEnum class named cls, as their integer codes
EnumMembers(cls) ==
   CASE cls = "VoiceModeType" -> VoiceModeType
     [] cls = "VcoWave" -> VcoWave
     [] cls = "MultiOscType" -> MultiOscType
     [] cls = "MultiOscNoise" -> MultiOscNoise
     [] cls = "MultiOscVPM" -> MultiOscVPM
     [] cls = "EGTarget" -> EGTarget
     [] cls = "ModFxType" -> ModFxType
     [] cls = "ModFxChorus" -> ModFxChorus
     [] cls = "ModFxEnsemble" -> ModFxEnsemble
     [] cls = "ModFxPhaser" -> ModFxPhaser
     [] cls = "ModFxFlanger" -> ModFxFlanger
     [] cls = "DelaySubType" -> DelaySubType
     [] cls = "ReverbSubType" -> ReverbSubType
     [] cls = "AssignTarget" -> AssignTarget
     [] cls = "CVInMode" -> CVInMode
     [] cls = "MicroTuning" -> MicroTuning
     [] cls = "LFOTargetOsc" -> LFOTargetOsc
     [] cls = "LFOMode" -> LFOMode
     [] cls = "LFOTarget" -> LFOTarget
     [] cls = "MultiRouting" -> MultiRouting
     [] cls = "PortamentoMode" -> PortamentoMode
     [] cls = "UserParamType" -> UserParamType

EnumClasses ==
   {"VoiceModeType", "VcoWave", "MultiOscType", "MultiOscNoise", "MultiOscVPM",
    "EGTarget", "ModFxType", "ModFxChorus", "ModFxEnsemble", "ModFxPhaser",
    "ModFxFlanger", "DelaySubType", "ReverbSubType", "AssignTarget", "CVInMode",
    "MicroTuning", "LFOTargetOsc", "LFOMode", "LFOTarget", "MultiRouting",
    "PortamentoMode", "UserParamType"}

(* ------------------------- outcomes of a call -------------------------- *)

\* the value of an Optional[str] field that was never assigned
None == <<-1>>

\* a call returns a value ...
\* of Python type type (converted values inside the decoder carry type "")
Return(v, type) ==
   [kind |-> "return", type |-> type, exc |-> "", msg |-> "", raw |-> -1, cls |-> "",
    value |-> <<v>>]

\* ... or raises exception class exc; msg is the fixed head of its message,
\* raw and cls the code and enum class an enum conversion complains about
Raise(exc, msg, raw, cls) ==
   [kind |-> "raise", type |-> "", exc |-> exc, msg |-> msg, raw |-> raw, cls |-> cls,
    value |-> << >>]

\* the outcome before any call was made
NoCall ==
   [kind |-> "none", type |-> "", exc |-> "", msg |-> "", raw |-> -1, cls |-> "",
    value |-> << >>]

(* --------------------------- struct module ----------------------------- *)

\* the format string of parse_binary without its '<' prefix, one element per
\* item: "4s" and "12s" are byte strings, "B" an unsigned byte, "H" an
\* unsigned little-endian 16-bit integer
Fmt ==
   <<"4s", "12s", "B", "B", "B", "H", "B", "B",
     "B", "H", "H", "B", "B", "H", "H", "B",
     "B", "H", "B", "B", "B", "B", "H", "H",
     "H", "H", "H", "H", "H", "H", "B", "B",
     "H", "H", "B", "B", "H", "H", "H", "H",
     "H", "B", "B", "B", "B", "H", "H", "H",
     "H", "B", "B", "B", "B", "H", "B", "H",
     "B", "B", "B", "B", "B", "B", "B", "H",
     "H", "B", "B", "B", "B", "B", "B", "B",
     "H", "H", "B", "H", "B", "B", "B", "B",
     "B", "H", "H", "H", "H", "H", "B", "B",
     "B", "H", "H", "B", "4s">>

\* the format of the second packed selector byte and of the trailing fields
FmtSelectors == <<"B">>
FmtRemaining == <<"H", "H", "B">>

\* number of bytes one format item occupies ('<': standard sizes, no padding)
ItemSize(c) ==
   CASE c = "4s" -> 4
     [] c = "12s" -> 12
     [] c = "B" -> 1
     [] c = "H" -> 2

RECURSIVE SizeUpTo(_, _)
\* the bytes occupied by the first n items of fmt
SizeUpTo(fmt, n) == IF n = 0 THEN 0 ELSE SizeUpTo(fmt, n - 1) + ItemSize(fmt[n])

\* struct.calcsize
calcsize(fmt) == SizeUpTo(fmt, Len(fmt))

\* Python's b[lo:hi] on a byte string, 0 <= lo, 0 <= hi
Slice(b, lo, hi) ==
   LET h == IF hi < Len(b) THEN hi ELSE Len(b)
   IN  IF lo >= h THEN << >> ELSE SubSeq(b, lo + 1, h)

\* the value of item k (1-based) of fmt read from buf
ItemValue(fmt, buf, k) ==
   LET off == SizeUpTo(fmt, k - 1)
   IN  CASE fmt[k] = "B" -> buf[off + 1]
         [] fmt[k] = "H" -> buf[off + 1] + 256 * buf[off + 2]
         [] OTHER -> SubSeq(buf, off + 1, off + ItemSize(fmt[k]))

\* struct.unpack: struct.error unless buf has exactly calcsize(fmt) bytes,
\* else the tuple of item values
struct_unpack(fmt, buf) ==
   IF Len(buf) # calcsize(fmt)
   THEN [error |-> TRUE, values |-> << >>]
   ELSE [error |-> FALSE, values |-> [k \in 1..Len(fmt) |-> ItemValue(fmt, buf, k)]]

\* the bytes struct.pack writes for value v of item c
ItemBytes(c, v) ==
   CASE c = "B" -> <<v>>
     [] c = "H" -> <<v % 256, v \div 256>>
     [] OTHER -> v

RECURSIVE PackUpTo(_, _, _)
PackUpTo(fmt, vals, n) ==
   IF n = 0 THEN << >> ELSE PackUpTo(fmt, vals, n - 1) \o ItemBytes(fmt[n], vals[n])

\* struct.pack of one value per item
struct_pack(fmt, vals) == PackUpTo(fmt, vals, Len(fmt))

(* --------------------------- program_data.py --------------------------- *)

\* ProgramData(): the dataclass defaults; enum members are their integer
\* codes (IntEnum), Optional[str] fields start as None
ProgramData ==
   [
      header |-> None,
      program_name |-> None,
      octave |-> 0,
      portamento |-> 0,
      key_trig |-> FALSE,
      voice_mode_depth |-> 0,
      voice_mode_type |-> 0,
      vco1_wave |-> 0,
      vco1_octave |-> 0,
      vco1_pitch |-> 0,
      vco1_shape |-> 0,
      vco2_wave |-> 0,
      vco2_octave |-> 0,
      vco2_pitch |-> 0,
      vco2_shape |-> 0,
      oscillator_sync |-> FALSE,
      ring_mod |-> FALSE,
      cross_mod_depth |-> 0,
      multi_osc_type |-> 0,
      selected_multi_osc_noise |-> 0,
      selected_multi_osc_vpm |-> 0,
      selected_multi_osc_user |-> 0,
      shape_noise |-> 0,
      shape_vpm |-> 0,
      shape_user |-> 0,
      shift_shape_noise |-> 0,
      shift_shape_vpm |-> 0,
      shift_shape_user |-> 0,
      vco1_level |-> 0,
      vco2_level |-> 0,
      multi_level |-> 0,
      filter_cutoff |-> 0,
      filter_resonance |-> 0,
      filter_cutoff_drive |-> 0,
      filter_cutoff_keyboard_track |-> 0,
      amp_eg_attack |-> 0,
      amp_eg_decay |-> 0,
      amp_eg_sustain |-> 0,
      amp_eg_release |-> 0,
      eg_attack |-> 0,
      eg_decay |-> 0,
      eg_int |-> 0,
      eg_target |-> 0,
      lfo_wave |-> 0,
      lfo_mode |-> 1,
      lfo_rate |-> 0,
      lfo_int |-> 0,
      lfo_target |-> 0,
      mod_fx_on_off |-> FALSE,
      mod_fx_type |-> 0,
      mod_fx_chorus |-> 0,
      mod_fx_ensemble |-> 0,
      mod_fx_phaser |-> 0,
      mod_fx_flanger |-> 0,
      mod_fx_user |-> 0,
      mod_fx_time |-> 0,
      mod_fx_depth |-> 0,
      delay_on_off |-> FALSE,
      delay_sub_type |-> 0,
      delay_time |-> 0,
      delay_depth |-> 0,
      reverb_on_off |-> FALSE,
      reverb_sub_type |-> 0,
      reverb_time |-> 0,
      reverb_depth |-> 0,
      bend_range_plus |-> 0,
      bend_range_minus |-> 0,
      joystick_assign_plus |-> 0,
      joystick_range_plus |-> 0,
      joystick_assign_minus |-> 0,
      joystick_range_minus |-> 0,
      cv_in_mode |-> 0,
      cv_in1_assign |-> 0,
      cv_in1_range |-> 0,
      cv_in2_assign |-> 0,
      cv_in2_range |-> 0,
      micro_tuning |-> 0,
      scale_key |-> 0,
      program_tuning |-> 0,
      lfo_key_sync |-> FALSE,
      lfo_voice_sync |-> FALSE,
      lfo_target_osc |-> 0,
      cutoff_velocity |-> 0,
      amp_velocity |-> 0,
      multi_octave |-> 0,
      multi_routing |-> 0,
      eg_legato |-> FALSE,
      portamento_mode |-> 0,
      portamento_bpm_sync |-> FALSE,
      program_level |-> 72,
      vpm_parameter1_feedback |-> 100,
      vpm_parameter2_noise_depth |-> 100,
      vpm_parameter3_shape_mod_int |-> 100,
      vpm_parameter4_mod_attack |-> 100,
      vpm_parameter5_mod_decay |-> 100,
      vpm_parameter6_mod_key_track |-> 100,
      user_param1 |-> 0,
      user_param2 |-> 0,
      user_param3 |-> 0,
      user_param4 |-> 0,
      user_param5 |-> 0,
      user_param6 |-> 0,
      user_param56_type |-> 0,
      user_param1234_type |-> 0,
      user_param1_type |-> 0,
      user_param2_type |-> 0,
      user_param3_type |-> 0,
      user_param4_type |-> 0,
      user_param5_type |-> 0,
      user_param6_type |-> 0,
      program_transpose |-> 13,
      delay_dry_wet |-> 0,
      reverb_dry_wet |-> 0,
      midi_after_touch_assign |-> 0,
      program_end_marker |-> None
   ]

(* --------------------- binary_parser.py: parse_binary ------------------ *)

\* the assignments of parse_binary from result[0] to result[101], in source
\* order: program.<field> = <conv>(result[idx])
FieldSteps ==
   <<
      [field |-> "header", idx |-> 0, conv |-> "ascii"],
      [field |-> "program_name", idx |-> 1, conv |-> "ascii"],
      [field |-> "octave", idx |-> 2, conv |-> "int"],
      [field |-> "portamento", idx |-> 3, conv |-> "int"],
      [field |-> "key_trig", idx |-> 4, conv |-> "bool"],
      [field |-> "voice_mode_depth", idx |-> 5, conv |-> "int"],
      [field |-> "voice_mode_type", idx |-> 6, conv |-> "VoiceModeType"],
      [field |-> "vco1_wave", idx |-> 7, conv |-> "VcoWave"],
      [field |-> "vco1_octave", idx |-> 8, conv |-> "int"],
      [field |-> "vco1_pitch", idx |-> 9, conv |-> "int"],
      [field |-> "vco1_shape", idx |-> 10, conv |-> "int"],
      [field |-> "vco2_wave", idx |-> 11, conv |-> "VcoWave"],
      [field |-> "vco2_octave", idx |-> 12, conv |-> "int"],
      [field |-> "vco2_pitch", idx |-> 13, conv |-> "int"],
      [field |-> "vco2_shape", idx |-> 14, conv |-> "int"],
      [field |-> "oscillator_sync", idx |-> 15, conv |-> "bool"],
      [field |-> "ring_mod", idx |-> 16, conv |-> "bool"],
      [field |-> "cross_mod_depth", idx |-> 17, conv |-> "int"],
      [field |-> "multi_osc_type", idx |-> 18, conv |-> "MultiOscType"],
      [field |-> "selected_multi_osc_noise", idx |-> 19, conv |-> "MultiOscNoise"],
      [field |-> "selected_multi_osc_vpm", idx |-> 20, conv |-> "MultiOscVPM"],
      [field |-> "selected_multi_osc_user", idx |-> 21, conv |-> "int"],
      [field |-> "shape_noise", idx |-> 22, conv |-> "int"],
      [field |-> "shape_vpm", idx |-> 23, conv |-> "int"],
      [field |-> "shape_user", idx |-> 24, conv |-> "int"],
      [field |-> "shift_shape_noise", idx |-> 25, conv |-> "int"],
      [field |-> "shift_shape_vpm", idx |-> 26, conv |-> "int"],
      [field |-> "shift_shape_user", idx |-> 27, conv |-> "int"],
      [field |-> "vco1_level", idx |-> 28, conv |-> "int"],
      [field |-> "vco2_level", idx |-> 29, conv |-> "int"],
      [field |-> "multi_level", idx |-> 30, conv |-> "int"],
      [field |-> "filter_cutoff", idx |-> 31, conv |-> "int"],
      [field |-> "filter_resonance", idx |-> 32, conv |-> "int"],
      [field |-> "filter_cutoff_drive", idx |-> 33, conv |-> "int"],
      [field |-> "filter_cutoff_keyboard_track", idx |-> 34, conv |-> "int"],
      [field |-> "amp_eg_attack", idx |-> 35, conv |-> "int"],
      [field |-> "amp_eg_decay", idx |-> 36, conv |-> "int"],
      [field |-> "amp_eg_sustain", idx |-> 37, conv |-> "int"],
      [field |-> "amp_eg_release", idx |-> 38, conv |-> "int"],
      [field |-> "eg_attack", idx |-> 39, conv |-> "int"],
      [field |-> "eg_decay", idx |-> 40, conv |-> "int"],
      [field |-> "eg_int", idx |-> 41, conv |-> "int"],
      [field |-> "eg_target", idx |-> 42, conv |-> "EGTarget"],
      [field |-> "lfo_wave", idx |-> 43, conv |-> "VcoWave"],
      [field |-> "lfo_mode", idx |-> 44, conv |-> "LFOMode"],
      [field |-> "lfo_rate", idx |-> 45, conv |-> "int"],
      [field |-> "lfo_int", idx |-> 46, conv |-> "int"],
      [field |-> "lfo_target", idx |-> 47, conv |-> "LFOTarget"],
      [field |-> "mod_fx_on_off", idx |-> 48, conv |-> "bool"],
      [field |-> "mod_fx_type", idx |-> 49, conv |-> "ModFxTypeOrNone"],
      [field |-> "mod_fx_chorus", idx |-> 50, conv |-> "ModFxChorus"],
      [field |-> "mod_fx_ensemble", idx |-> 51, conv |-> "ModFxEnsemble"],
      [field |-> "mod_fx_phaser", idx |-> 52, conv |-> "ModFxPhaser"],
      [field |-> "mod_fx_flanger", idx |-> 53, conv |-> "ModFxFlanger"],
      [field |-> "mod_fx_user", idx |-> 54, conv |-> "int"],
      [field |-> "mod_fx_time", idx |-> 55, conv |-> "int"],
      [field |-> "mod_fx_depth", idx |-> 56, conv |-> "int"],
      [field |-> "delay_on_off", idx |-> 57, conv |-> "bool"],
      [field |-> "delay_sub_type", idx |-> 58, conv |-> "DelaySubType"],
      [field |-> "delay_time", idx |-> 59, conv |-> "int"],
      [field |-> "delay_depth", idx |-> 60, conv |-> "int"],
      [field |-> "reverb_on_off", idx |-> 61, conv |-> "bool"],
      [field |-> "reverb_sub_type", idx |-> 62, conv |-> "ReverbSubType"],
      [field |-> "reverb_time", idx |-> 63, conv |-> "int"],
      [field |-> "reverb_depth", idx |-> 64, conv |-> "int"],
      [field |-> "bend_range_plus", idx |-> 65, conv |-> "int"],
      [field |-> "bend_range_minus", idx |-> 66, conv |-> "int"],
      [field |-> "joystick_assign_plus", idx |-> 67, conv |-> "AssignTarget"],
      [field |-> "joystick_range_plus", idx |-> 68, conv |-> "int"],
      [field |-> "joystick_assign_minus", idx |-> 69, conv |-> "AssignTarget"],
      [field |-> "joystick_range_minus", idx |-> 70, conv |-> "int"],
      [field |-> "cv_in_mode", idx |-> 71, conv |-> "CVInMode"],
      [field |-> "cv_in1_assign", idx |-> 72, conv |-> "AssignTarget"],
      [field |-> "cv_in1_range", idx |-> 73, conv |-> "int"],
      [field |-> "cv_in2_assign", idx |-> 74, conv |-> "AssignTarget"],
      [field |-> "cv_in2_range", idx |-> 75, conv |-> "int"],
      [field |-> "micro_tuning", idx |-> 76, conv |-> "MicroTuning"],
      [field |-> "scale_key", idx |-> 77, conv |-> "int"],
      [field |-> "program_tuning", idx |-> 78, conv |-> "int"],
      [field |-> "lfo_key_sync", idx |-> 79, conv |-> "bool"],
      [field |-> "lfo_voice_sync", idx |-> 80, conv |-> "bool"],
      [field |-> "lfo_target_osc", idx |-> 81, conv |-> "LFOTargetOsc"],
      [field |-> "cutoff_velocity", idx |-> 82, conv |-> "int"],
      [field |-> "amp_velocity", idx |-> 83, conv |-> "int"],
      [field |-> "multi_octave", idx |-> 84, conv |-> "int"],
      [field |-> "multi_routing", idx |-> 85, conv |-> "MultiRouting"],
      [field |-> "eg_legato", idx |-> 86, conv |-> "bool"],
      [field |-> "portamento_mode", idx |-> 87, conv |-> "PortamentoMode"],
      [field |-> "portamento_bpm_sync", idx |-> 88, conv |-> "bool"],
      [field |-> "program_level", idx |-> 89, conv |-> "int"],
      [field |-> "vpm_parameter1_feedback", idx |-> 90, conv |-> "int"],
      [field |-> "vpm_parameter2_noise_depth", idx |-> 91, conv |-> "int"],
      [field |-> "vpm_parameter3_shape_mod_int", idx |-> 92, conv |-> "int"],
      [field |-> "vpm_parameter4_mod_attack", idx |-> 93, conv |-> "int"],
      [field |-> "vpm_parameter5_mod_decay", idx |-> 94, conv |-> "int"],
      [field |-> "vpm_parameter6_mod_key_track", idx |-> 95, conv |-> "int"],
      [field |-> "user_param1", idx |-> 96, conv |-> "int"],
      [field |-> "user_param2", idx |-> 97, conv |-> "int"],
      [field |-> "user_param3", idx |-> 98, conv |-> "int"],
      [field |-> "user_param4", idx |-> 99, conv |-> "int"],
      [field |-> "user_param5", idx |-> 100, conv |-> "int"],
      [field |-> "user_param6", idx |-> 101, conv |-> "int"]
   >>

\* bytes.decode('ascii') succeeds iff every byte is below 128
IsAscii(b) == \A i \in 1..Len(b) : b[i] < 128

RECURSIVE rstrip(_)
\* str.rstrip('\x00')
rstrip(s) ==
   IF Len(s) > 0 /\ s[Len(s)] = 0 THEN rstrip(SubSeq(s, 1, Len(s) - 1)) ELSE s

\* (x >> shift) & 0x3
BitField(x, shift) == (x \div (2 ^ shift)) % 4

\* the exception raised for result[idx] when the tuple has no such index
IndexError == Raise("IndexError", "tuple index out of range", -1, "")

\* cls(v) for an IntEnum class: the member with code v, ValueError otherwise
EnumCall(cls, v) ==
   IF v \in EnumMembers(cls) THEN Return(v, "")
   ELSE Raise("ValueError", "is not a valid", v, cls)

\* the right-hand side of one assignment applied to the raw value v
Convert(conv, v) ==
   CASE conv = "ascii" ->
           IF IsAscii(v) THEN Return(rstrip(v), "")
           ELSE Raise("UnicodeDecodeError", "'ascii' codec can't decode byte", -1, "")
     [] conv = "int" -> Return(v, "")
     [] conv = "bool" -> Return(v # 0, "")
     [] conv = "ModFxTypeOrNone" -> IF v > 0 THEN EnumCall("ModFxType", v) ELSE Return(0, "")
     [] OTHER -> EnumCall(conv, v)

\* the right-hand side of the assignment s evaluated on the tuple result:
\* IndexError when the tuple has no element idx
StepValue(result, s) ==
   IF s.idx >= Len(result) THEN IndexError ELSE Convert(s.conv, result[s.idx + 1])

\* the assignments of steps executed in order from st, the pair of the
\* exception raised so far (NoCall when none) and the program built so far:
\* the first assignment whose right-hand side raises ends the pass with its
\* exception, otherwise every field named by a step holds its (last) value
RunSteps(steps, result, st) ==
   IF st.exc.kind = "raise" THEN st
   ELSE LET failing == {k \in 1..Len(steps) : StepValue(result, steps[k]).kind = "raise"}
            first == CHOOSE k \in failing : \A j \in failing : k <= j
            last(f) == CHOOSE k \in 1..Len(steps) :
                          /\ steps[k].field = f
                          /\ \A j \in (k + 1)..Len(steps) : steps[j].field # f
        IN  IF failing # {}
            THEN [exc |-> StepValue(result, steps[first]), program |-> st.program]
            ELSE [exc |-> NoCall,
                  program |->
                     [f \in DOMAIN st.program |->
                        IF \E k \in 1..Len(steps) : steps[k].field = f
                        THEN StepValue(result, steps[last(f)]).value[1]
                        ELSE st.program[f]]]

\* one assignment executed from st
Assign(st, result, s) == RunSteps(<<s>>, result, st)

\* lines 193-201: the first packed selector byte and its four 2-bit fields
UserParamTypes1234(st, result) ==
   IF st.exc.kind = "raise" THEN st
   ELSE IF 102 >= Len(result) THEN [exc |-> IndexError, program |-> st.program]
   ELSE LET user_param_types == result[102 + 1]
            t1 == EnumCall("UserParamType", BitField(user_param_types, 0))
            t2 == EnumCall("UserParamType", BitField(user_param_types, 2))
            t3 == EnumCall("UserParamType", BitField(user_param_types, 4))
            t4 == EnumCall("UserParamType", BitField(user_param_types, 6))
            bad == IF t1.kind = "raise" THEN t1
                   ELSE IF t2.kind = "raise" THEN t2
                   ELSE IF t3.kind = "raise" THEN t3
                   ELSE IF t4.kind = "raise" THEN t4 ELSE NoCall
        IN  IF bad.kind = "raise" THEN [exc |-> bad, program |-> st.program]
            ELSE [exc |-> NoCall,
                  program |-> [st.program EXCEPT
                                  !.user_param1234_type = user_param_types,
                                  !.user_param1_type = t1.value[1],
                                  !.user_param2_type = t2.value[1],
                                  !.user_param3_type = t3.value[1],
                                  !.user_param4_type = t4.value[1]]]

\* lines 203-211: the second packed selector byte; every exception inside the
\* try is swallowed and the fields assigned before it keep their values
UserParamTypes56(st, d) ==
   IF st.exc.kind = "raise" \/ ~(Len(d) > 148) THEN st
   ELSE LET u == struct_unpack(FmtSelectors, Slice(d, 148, 149))
        IN  IF u.error THEN st
            ELSE LET user_param56_type == u.values[1]
                     t5 == EnumCall("UserParamType", BitField(user_param56_type, 0))
                     t6 == EnumCall("UserParamType", BitField(user_param56_type, 2))
                     p0 == [st.program EXCEPT !.user_param56_type = user_param56_type]
                     p1 == IF t5.kind = "raise" THEN p0
                           ELSE [p0 EXCEPT !.user_param5_type = t5.value[1]]
                     p2 == IF t5.kind = "raise" \/ t6.kind = "raise" THEN p1
                           ELSE [p1 EXCEPT !.user_param6_type = t6.value[1]]
                 IN  [exc |-> NoCall, program |-> p2]

\* lines 216-224: delay/reverb dry-wet and after-touch assign; every
\* exception inside the try is swallowed
RemainingFields(st, d) ==
   IF st.exc.kind = "raise" \/ ~(Len(d) >= 160) THEN st
   ELSE LET u == struct_unpack(FmtRemaining, Slice(d, 151, 156))
        IN  IF u.error THEN st
            ELSE LET remaining == u.values
                     a == EnumCall("AssignTarget", remaining[3])
                     p0 == [st.program EXCEPT !.delay_dry_wet = remaining[1],
                                              !.reverb_dry_wet = remaining[2]]
                     p1 == IF a.kind = "raise" THEN p0
                           ELSE [p0 EXCEPT !.midi_after_touch_assign = a.value[1]]
                 IN  [exc |-> NoCall, program |-> p1]

\* a length check that lets a 159-byte input through
MinLengthOffByOne == 160 - 1

\* the length below which parse_binary rejects its input (line 44)
MinLength == 160

\* a window cut to the size the format string describes
WindowOfFormat == calcsize(Fmt)

\* the end of the slice handed to struct.unpack (line 49)
Window == 160

\* line 214 and line 227
TransposeStep == [field |-> "program_transpose", idx |-> 103, conv |-> "int"]
EndMarkerStep == [field |-> "program_end_marker", idx |-> 104, conv |-> "ascii"]

\* a decoder that rejects a window whose header or end marker is not the
\* expected text
decode_window_checking_markers(d) ==
   LET u == struct_unpack(Fmt, Slice(d, 0, Window))
   IN  IF Slice(d, 0, 4) # <<80, 82, 79, 71>> \/ Slice(d, 156, 160) # <<80, 82, 69, 68>>
       THEN Raise("ValueError", "Invalid program marker", -1, "")
       ELSE IF u.error
       THEN Raise("ValueError", "Failed to parse binary data", -1, "")
       ELSE LET result == u.values
                s0 == [exc |-> NoCall, program |-> ProgramData]
                s1 == RunSteps(FieldSteps, result, s0)
                s2 == UserParamTypes1234(s1, result)
                s3 == UserParamTypes56(s2, d)
                s4 == Assign(s3, result, TransposeStep)
                s5 == RemainingFields(s4, d)
                s6 == Assign(s5, result, EndMarkerStep)
            IN  IF s6.exc.kind = "raise" THEN s6.exc
                ELSE Return(s6.program, "ProgramData")

\* lines 47-229 of parse_binary: the unpack of the window and the field pass
decode_window(d) ==
   LET u == struct_unpack(Fmt, Slice(d, 0, Window))
   IN  IF u.error
       THEN Raise("ValueError", "Failed to parse binary data", -1, "")
       ELSE LET result == u.values
                s0 == [exc |-> NoCall, program |-> ProgramData]
                s1 == RunSteps(FieldSteps, result, s0)
                s2 == UserParamTypes1234(s1, result)
                s3 == UserParamTypes56(s2, d)
                s4 == Assign(s3, result, TransposeStep)
                s5 == RemainingFields(s4, d)
                s6 == Assign(s5, result, EndMarkerStep)
            IN  IF s6.exc.kind = "raise" THEN s6.exc
                ELSE Return(s6.program, "ProgramData")

\* a decoder that keeps the bytes of the previous call in a shared buffer
\* and decodes the accumulated bytes
parse_binary_accumulating(d) ==
   IF Len(data \o d) < MinLength
   THEN Raise("ValueError", "Data too short", -1, "")
   ELSE decode_window(data \o d)

\* ProgramParser.parse_binary on the byte string d (a stream argument is
\* read in full first, lines 41-42, and d is what it yields)
parse_binary(d) ==
   IF Len(d) < MinLength
   THEN Raise("ValueError", "Data too short", -1, "")
   ELSE decode_window(d)

(* ------------------- binary_parser.py: container unwrap ---------------- *)

\* file names are sequences of one-character strings
DotProgBin == <<".", "p", "r", "o", "g", "_", "b", "i", "n">>
ProgPrefix == <<"P", "r", "o", "g", "_">>

\* the decimal digit d as a character
DigitChar(d) == <<"0", "1", "2", "3", "4", "5", "6", "7", "8", "9">>[d + 1]

RECURSIVE Decimal(_)
\* str(n) for n >= 0
Decimal(n) == IF n < 10 THEN <<DigitChar(n)>> ELSE Decimal(n \div 10) \o <<DigitChar(n % 10)>>

RECURSIVE ZeroPad(_, _)
\* s left-padded with '0' to width w
ZeroPad(s, w) == IF Len(s) >= w THEN s ELSE ZeroPad(<<"0">> \o s, w)

\* f'Prog_{program_number:03d}.prog_bin'
ProgFilename(program_number) ==
   ProgPrefix \o ZeroPad(Decimal(program_number), 3) \o DotProgBin

\* str.endswith
endswith(s, suffix) ==
   Len(s) >= Len(suffix) /\ SubSeq(s, Len(s) - Len(suffix) + 1, Len(s)) = suffix

\* ZipFile.namelist(): the entry names in listing order
namelist(entries) == [i \in 1..Len(entries) |-> entries[i].name]

\* ZipFile.read(name): the content of the last entry listed under name;
\* only called here with a name of the archive
zf_read(entries, name) ==
   LET i == CHOOSE j \in 1..Len(entries) :
               /\ entries[j].name = name
               /\ \A k \in (j + 1)..Len(entries) : entries[k].name # name
   IN  entries[i].content

\* a selection that takes the first listed entry whatever its name
UploadSelectionFirst(src) ==
   IF ~src.zip THEN [some |-> TRUE, bytes |-> src.bytes]
   ELSE IF Len(src.entries) = 0 THEN [some |-> FALSE, bytes |-> << >>]
   ELSE [some |-> TRUE, bytes |-> src.entries[1].content]

\* the bytes parse_from_upload hands to parse_binary, when it hands any:
\* src is the input as zipfile sees it, a raw byte string or an archive
\* with its entries
UploadSelection(src) ==
   IF ~src.zip THEN [some |-> TRUE, bytes |-> src.bytes]
   ELSE LET files == namelist(src.entries)
            prog_files == SelectSeq(files, LAMBDA f : endswith(f, DotProgBin))
        IN  IF Len(files) = 0 THEN [some |-> FALSE, bytes |-> << >>]
            ELSE IF Len(prog_files) > 0
                 THEN [some |-> TRUE, bytes |-> zf_read(src.entries, prog_files[1])]
                 ELSE [some |-> TRUE, bytes |-> zf_read(src.entries, files[1])]

\* an upload handler that reports an input zipfile cannot open
parse_from_upload_strict(src) ==
   IF ~src.zip THEN Raise("BadZipFile", "File is not a zip file", -1, "")
   ELSE LET sel == UploadSelection(src)
        IN  IF sel.some THEN parse_binary(sel.bytes) ELSE Return(None, "NoneType")

\* ProgramParser.parse_from_upload: an archive without entries falls out of
\* the with block and the function returns None
parse_from_upload(src) ==
   LET sel == UploadSelection(src)
   IN  IF sel.some THEN parse_binary(sel.bytes) ELSE Return(None, "NoneType")

\* a selection that ignores program_number and takes the first listed entry
FileSelectionFirst(src, program_number) ==
   IF ~src.zip THEN [some |-> TRUE, bytes |-> src.bytes]
   ELSE IF Len(src.entries) = 0 THEN [some |-> FALSE, bytes |-> << >>]
   ELSE [some |-> TRUE, bytes |-> src.entries[1].content]

\* the bytes parse_file hands to parse_binary, when it hands any
FileSelection(src, program_number) ==
   IF ~src.zip THEN [some |-> TRUE, bytes |-> src.bytes]
   ELSE LET files == namelist(src.entries)
            prog_filename == ProgFilename(program_number)
        IN  IF \E i \in 1..Len(files) : files[i] = prog_filename
            THEN [some |-> TRUE, bytes |-> zf_read(src.entries, prog_filename)]
            ELSE IF Len(files) > 0
                 THEN [some |-> TRUE, bytes |-> zf_read(src.entries, files[1])]
                 ELSE [some |-> FALSE, bytes |-> << >>]

\* ProgramParser.parse_file on a path whose file is src (exists = FALSE when
\* there is no file at the path)
parse_file(src, program_number) ==
   IF ~src.exists THEN Raise("FileNotFoundError", "No such file or directory", -1, "")
   ELSE LET sel == FileSelection(src, program_number)
        IN  IF sel.some THEN parse_binary(sel.bytes)
            ELSE Raise("ValueError", "No program files found", -1, "")

(* ------------------- binary_parser.py: DisplayHelper ------------------- *)

\* largest raw value handed to a display helper (the fields hold 0..1023)
MaxValue == 1030

\* str(n) of an integer
FormatInt(n) == IF n < 0 THEN <<"-">> \o Decimal(-n) ELSE Decimal(n)

\* a rounding that takes ties upwards
RoundHalfUp(num, den) == (2 * num + den) \div (2 * den)

\* the integer nearest to num / den (den > 0), ties to the even one: the
\* rounding of the 'f' presentation type
RoundHalfEven(num, den) ==
   LET q == num \div den
       r == num - q * den
   IN  IF 2 * r < den THEN q
       ELSE IF 2 * r > den THEN q + 1
       ELSE IF q % 2 = 0 THEN q ELSE q + 1

\* f"{x:.0f}" for x = num / den: a negative x that rounds to zero keeps its
\* sign
FormatFixed0(num, den) ==
   LET r == RoundHalfEven(num, den)
   IN  IF r = 0 /\ num < 0 THEN <<"-", "0">> ELSE FormatInt(r)

\* f"{x:.1f}" for x = num / den
FormatFixed1(num, den) ==
   LET t == RoundHalfEven(10 * num, den)
       a == IF t < 0 THEN -t ELSE t
   IN  (IF num < 0 THEN <<"-">> ELSE << >>)
       \o Decimal(a \div 10) \o <<".">> \o <<DigitChar(a % 10)>>

\* a pitch display without the dead zone around the centre: the two fine
\* segments are extended until they meet
pitch_cents_no_dead_zone(value) ==
   IF 0 <= value /\ value <= 4 THEN <<"-", "1", "2", "0", "0", "C">>
   ELSE IF 4 <= value /\ value <= 356
   THEN FormatFixed0((value - 356) * 944 - 256 * 352, 352) \o <<"C">>
   ELSE IF 356 <= value /\ value <= 476
   THEN FormatFixed0((value - 476) * 2 - 16, 1) \o <<"C">>
   ELSE IF 476 <= value /\ value <= 512 THEN FormatInt(value - 492) \o <<"C">>
   ELSE IF 512 <= value /\ value <= 548 THEN FormatInt(value - 532) \o <<"C">>
   ELSE IF 548 <= value /\ value <= 668
   THEN FormatFixed0((value - 548) * 2 + 16, 1) \o <<"C">>
   ELSE IF 668 <= value /\ value <= 1020
   THEN FormatFixed0((value - 668) * 944 + 256 * 352, 352) \o <<"C">>
   ELSE IF 1020 <= value /\ value <= 1023 THEN <<"1", "2", "0", "0", "C">>
   ELSE FormatInt(value) \o <<"C">>

\* DisplayHelper.pitch_cents: the first branch whose inclusive range holds
\* value decides; strings are sequences of one-character strings
pitch_cents(value) ==
   IF 0 <= value /\ value <= 4 THEN <<"-", "1", "2", "0", "0", "C">>
   ELSE IF 4 <= value /\ value <= 356
   THEN FormatFixed0((value - 356) * 944 - 256 * 352, 352) \o <<"C">>
   ELSE IF 356 <= value /\ value <= 476
   THEN FormatFixed0((value - 476) * 2 - 16, 1) \o <<"C">>
   ELSE IF 476 <= value /\ value <= 492 THEN FormatInt(value - 492) \o <<"C">>
   ELSE IF 492 <= value /\ value <= 532 THEN <<"0", "C">>
   ELSE IF 532 <= value /\ value <= 548 THEN FormatInt(value - 532) \o <<"C">>
   ELSE IF 548 <= value /\ value <= 668
   THEN FormatFixed0((value - 548) * 2 + 16, 1) \o <<"C">>
   ELSE IF 668 <= value /\ value <= 1020
   THEN FormatFixed0((value - 668) * 944 + 256 * 352, 352) \o <<"C">>
   ELSE IF 1020 <= value /\ value <= 1023 THEN <<"1", "2", "0", "0", "C">>
   ELSE FormatInt(value) \o <<"C">>

\* 0x40000000, the divisor of eg_int_percent
EgIntScale == 2 ^ 30

\* a float percentage x is held as the integer x * 0x40000000 / 100, which
\* is exact for every value eg_int_percent returns: the products below stay
\* under 2^53 and the division is by a power of two (p a multiple of 100)
Percent(p) == (p \div 100) * EgIntScale

\* the return expression of branch k (1..9, the else branch is 10) of
\* pitch_cents, whatever the range the branch is guarded by
pitch_cents_branch(k, value) ==
   CASE k = 1 -> <<"-", "1", "2", "0", "0", "C">>
     [] k = 2 -> FormatFixed0((value - 356) * 944 - 256 * 352, 352) \o <<"C">>
     [] k = 3 -> FormatFixed0((value - 476) * 2 - 16, 1) \o <<"C">>
     [] k = 4 -> FormatInt(value - 492) \o <<"C">>
     [] k = 5 -> <<"0", "C">>
     [] k = 6 -> FormatInt(value - 532) \o <<"C">>
     [] k = 7 -> FormatFixed0((value - 548) * 2 + 16, 1) \o <<"C">>
     [] k = 8 -> FormatFixed0((value - 668) * 944 + 256 * 352, 352) \o <<"C">>
     [] k = 9 -> <<"1", "2", "0", "0", "C">>
     [] OTHER -> FormatInt(value) \o <<"C">>

\* the return expression of branch k (1..5, the else branch is 6) of
\* eg_int_percent, in the units of Percent
eg_int_percent_branch(k, value) ==
   CASE k = 1 -> Percent(-100)
     [] k = 2 -> -((492 - value) * (492 - value) * 4641)
     [] k = 3 -> Percent(0)
     [] k = 4 -> (value - 532) * (value - 532) * 4641
     [] k = 5 -> Percent(100)
     [] OTHER -> Percent(0)

\* an EG INT display in which the last branch whose range holds value
\* decides
eg_int_percent_last_match(value) ==
   IF 1013 <= value /\ value <= 1023 THEN Percent(100)
   ELSE IF 532 <= value /\ value <= 1013
   THEN (value - 532) * (value - 532) * 4641
   ELSE IF 492 <= value /\ value <= 532 THEN Percent(0)
   ELSE IF 11 <= value /\ value <= 492
   THEN -((492 - value) * (492 - value) * 4641)
   ELSE IF 0 <= value /\ value <= 11 THEN Percent(-100)
   ELSE Percent(0)

\* DisplayHelper.eg_int_percent, in the units of Percent
eg_int_percent(value) ==
   IF 0 <= value /\ value <= 11 THEN Percent(-100)
   ELSE IF 11 <= value /\ value <= 492
   THEN -((492 - value) * (492 - value) * 4641)
   ELSE IF 492 <= value /\ value <= 532 THEN Percent(0)
   ELSE IF 532 <= value /\ value <= 1013
   THEN (value - 532) * (value - 532) * 4641
   ELSE IF 1013 <= value /\ value <= 1023 THEN Percent(100)
   ELSE Percent(0)

\* a level display that signs zero as positive
program_level_decibel_signed_zero(value) ==
   LET db5 == (value - 12) - 18 * 5
   IN  (IF db5 >= 0 THEN <<"+">> ELSE << >>) \o FormatFixed1(db5, 5) \o <<"d", "B">>

\* DisplayHelper.program_level_decibel: db = (value - 12) / 5.0 - 18.0 is
\* db5 / 5
program_level_decibel(value) ==
   LET db5 == (value - 12) - 18 * 5
   IN  (IF db5 > 0 THEN <<"+">> ELSE << >>) \o FormatFixed1(db5, 5) \o <<"d", "B">>

\* a percent display that signs zero as positive
minus_to_plus_100_string_signed_zero(value) ==
   LET percent == value - 100
   IN  (IF percent >= 0 THEN <<"+">> ELSE << >>) \o FormatInt(percent) \o <<"%">>

\* DisplayHelper.minus_to_plus_100_string
minus_to_plus_100_string(value) ==
   LET percent == value - 100
   IN  (IF percent > 0 THEN <<"+">> ELSE << >>) \o FormatInt(percent) \o <<"%">>

\* the members of VoiceModeType and LFOMode the helpers test for
VoiceModeType_ARP == 1
VoiceModeType_CHORD == 2
VoiceModeType_UNISON == 3
VoiceModeType_POLY == 4
LFOMode_BPM == 2

\* the member names of VoiceModeType and LFOMode, by code
VoiceModeTypeName == <<"NONE", "ARP", "CHORD", "UNISON", "POLY">>
LFOModeName == <<"ONE_SHOT", "NORMAL", "BPM">>

\* the (min_val, max_val, label) tables of the helpers
arp_ranges ==
   <<[min_val |-> 0, max_val |-> 78, label |-> <<"M", "A", "N", "U", "A", "L", " ", "1">>],
     [min_val |-> 79, max_val |-> 156, label |-> <<"M", "A", "N", "U", "A", "L", " ", "2">>],
     [min_val |-> 157, max_val |-> 234, label |-> <<"R", "I", "S", "E", " ", "1">>],
     [min_val |-> 235, max_val |-> 312, label |-> <<"R", "I", "S", "E", " ", "2">>],
     [min_val |-> 313, max_val |-> 390, label |-> <<"F", "A", "L", "L", " ", "1">>],
     [min_val |-> 391, max_val |-> 468, label |-> <<"F", "A", "L", "L", " ", "2">>],
     [min_val |-> 469, max_val |-> 546, label |-> <<"R", "I", "S", "E", " ", "F", "A", "L", "L", " ", "1">>],
     [min_val |-> 547, max_val |-> 624, label |-> <<"R", "I", "S", "E", " ", "F", "A", "L", "L", " ", "2">>],
     [min_val |-> 625, max_val |-> 702, label |-> <<"P", "O", "L", "Y", " ", "1">>],
     [min_val |-> 703, max_val |-> 780, label |-> <<"P", "O", "L", "Y", " ", "2">>],
     [min_val |-> 781, max_val |-> 858, label |-> <<"R", "A", "N", "D", "O", "M", " ", "1">>],
     [min_val |-> 859, max_val |-> 936, label |-> <<"R", "A", "N", "D", "O", "M", " ", "2">>],
     [min_val |-> 937, max_val |-> 1023, label |-> <<"R", "A", "N", "D", "O", "M", " ", "3">>]>>

chord_ranges ==
   <<[min_val |-> 0, max_val |-> 73, label |-> <<"5", "t", "h">>],
     [min_val |-> 74, max_val |-> 146, label |-> <<"s", "u", "s", "2">>],
     [min_val |-> 147, max_val |-> 219, label |-> <<"m">>],
     [min_val |-> 220, max_val |-> 292, label |-> <<"M", "a", "j">>],
     [min_val |-> 293, max_val |-> 365, label |-> <<"s", "u", "s", "4">>],
     [min_val |-> 366, max_val |-> 438, label |-> <<"m", "7">>],
     [min_val |-> 439, max_val |-> 511, label |-> <<"7">>],
     [min_val |-> 512, max_val |-> 585, label |-> <<"7", "s", "u", "s", "4">>],
     [min_val |-> 586, max_val |-> 658, label |-> <<"M", "a", "j", "7">>],
     [min_val |-> 659, max_val |-> 731, label |-> <<"a", "u", "g">>],
     [min_val |-> 732, max_val |-> 804, label |-> <<"d", "i", "m">>],
     [min_val |-> 805, max_val |-> 877, label |-> <<"m", "7", "b", "5">>],
     [min_val |-> 878, max_val |-> 950, label |-> <<"m", "M", "a", "j", "7">>],
     [min_val |-> 951, max_val |-> 1023, label |-> <<"M", "a", "j", "7", "b", "5">>]>>

bpm_ranges ==
   <<[min_val |-> 0, max_val |-> 63, label |-> <<"4">>],
     [min_val |-> 64, max_val |-> 127, label |-> <<"2">>],
     [min_val |-> 128, max_val |-> 191, label |-> <<"1">>],
     [min_val |-> 192, max_val |-> 255, label |-> <<"3", "/", "4">>],
     [min_val |-> 256, max_val |-> 319, label |-> <<"1", "/", "2">>],
     [min_val |-> 320, max_val |-> 383, label |-> <<"3", "/", "8">>],
     [min_val |-> 384, max_val |-> 447, label |-> <<"1", "/", "3">>],
     [min_val |-> 448, max_val |-> 511, label |-> <<"1", "/", "4">>],
     [min_val |-> 512, max_val |-> 575, label |-> <<"3", "/", "1", "6">>],
     [min_val |-> 576, max_val |-> 639, label |-> <<"1", "/", "6">>],
     [min_val |-> 640, max_val |-> 703, label |-> <<"1", "/", "8">>],
     [min_val |-> 704, max_val |-> 767, label |-> <<"1", "/", "1", "2">>],
     [min_val |-> 768, max_val |-> 831, label |-> <<"1", "/", "1", "6">>],
     [min_val |-> 832, max_val |-> 895, label |-> <<"1", "/", "2", "4">>],
     [min_val |-> 896, max_val |-> 959, label |-> <<"1", "/", "3", "2">>],
     [min_val |-> 960, max_val |-> 1023, label |-> <<"1", "/", "3", "6">>]>>

\* a label lookup whose ranges exclude their upper end
FirstRangeLabelExclusive(ranges, value) ==
   LET holding == {k \in 1..Len(ranges) :
                     ranges[k].min_val <= value /\ value < ranges[k].max_val}
   IN  IF holding = {} THEN FormatInt(value)
       ELSE ranges[CHOOSE k \in holding : \A j \in holding : k <= j].label

\* for min_val, max_val, label in ranges: if min_val <= value <= max_val:
\* return label; the label of the first range that holds value, and
\* str(value) when the loop ends without a return
FirstRangeLabel(ranges, value) ==
   LET holding == {k \in 1..Len(ranges) :
                     ranges[k].min_val <= value /\ value <= ranges[k].max_val}
   IN  IF holding = {} THEN FormatInt(value)
       ELSE ranges[CHOOSE k \in holding : \A j \in holding : k <= j].label

\* DisplayHelper.voice_mode_depth_label
voice_mode_depth_label(vm_type, value) ==
   IF vm_type = VoiceModeType_ARP THEN FirstRangeLabel(arp_ranges, value)
   ELSE IF vm_type = VoiceModeType_UNISON
   THEN FormatFixed1(value * 50, 1023) \o <<" ", "C", "e", "n", "t">>
   ELSE IF vm_type = VoiceModeType_CHORD THEN FirstRangeLabel(chord_ranges, value)
   ELSE IF vm_type = VoiceModeType_POLY
   THEN IF value < 256 THEN <<"P", "o", "l", "y">>
        ELSE <<"D", "u", "o", " ">> \o FormatFixed1(value * 50, 1023)
   ELSE FormatInt(value)

\* a rate display that uses the tempo-synced labels in every mode
lfo_rate_any_mode(value, mode) == FirstRangeLabel(bpm_ranges, value)

\* DisplayHelper.lfo_rate
lfo_rate(value, mode) ==
   IF mode = LFOMode_BPM THEN FirstRangeLabel(bpm_ranges, value) ELSE FormatInt(value)

(* ------------------------------ inputs --------------------------------- *)

Zeros(n) == [i \in 1..n |-> 0]

PROG == <<80, 82, 79, 71>>
PRED == <<80, 82, 69, 68>>

\* b'Test' padded with NUL to 12 bytes, b'Test Program', and a name holding
\* a byte that is not ASCII
NameTest == <<84, 101, 115, 116>> \o Zeros(8)
NameTestProgram == <<84, 101, 115, 116, 32, 80, 114, 111, 103, 114, 97, 109>>
NameLatin1 == <<84, 233, 115, 116>> \o Zeros(8)

\* the items of the format that precede its closing "4s": header, name and
\* the scalar items at result[2] .. result[91]
FmtFields == SubSeq(Fmt, 1, 92)

\* one in-domain value per item of FmtFields: the values of the test fixture
\* sample_binary_data for result[2] .. result[91], reduced modulo 256 where
\* the fixture's value does not fit the item of the decoder's format
BaseValues ==
   <<PROG, NameTest,
     2, 64, 1, 512, 4, 2, 1, 300, 200, 1,
     2, 400, 600, 1, 0, 256, 1, 0, 0, 5,
     100, 200, 300, 150, 250, 350, 800, 700, 88, 0,
     256, 1, 2, 100, 200, 700, 150, 120, 180, 88,
     0, 1, 2, 400, 300, 2, 1, 1, 0, 1,
     1, 2, 3, 400, 244, 1, 0, 44, 144, 1,
     0, 500, 300, 0, 0, 0, 100, 0, 100, 0,
     0, 100, 0, 100, 0, 12, 50, 0, 0, 0,
     64, 64, 1, 0, 0, 0, 0, 72, 110, 90>>

\* bytes 145..159 of a record: the second packed selector byte at offset
\* 148, delay dry/wet, reverb dry/wet and after-touch assign at 151..155,
\* the end marker at 156
Trailer(sel, dw, rw, at) ==
   <<0, 0, 0, sel, 0, 0, dw % 256, dw \div 256, rw % 256, rw \div 256, at>> \o PRED

BaseTrailer == Trailer(0, 0, 0, 0)

\* a 160-byte buffer built field by field: the values packed item by item,
\* followed by the trailing bytes
Built(placed) == struct_pack(FmtFields, placed.vals) \o placed.tail

\* the field assignments whose conversion is an enum class
EnumSteps == SelectSeq(FieldSteps, LAMBDA s : s.conv \notin {"ascii", "int", "bool"})

\* the enum class a conversion calls
ConvClass(conv) == IF conv = "ModFxTypeOrNone" THEN "ModFxType" ELSE conv

\* the enum classes of the CV / assignment style fields
BestEffortClasses == {"AssignTarget", "CVInMode"}

\* the smallest code above every member of an enum class
AboveDomain(cls) == CHOOSE v \in 0..256 : v \notin EnumMembers(cls) /\ \A m \in EnumMembers(cls) : m < v

\* the values placed in the buffers the model decodes: the base values, and
\* the base values with one field changed
PlacedInputs ==
   {[vals |-> BaseValues, tail |-> t] :
       t \in {BaseTrailer, Trailer(228, 1023, 512, 28), Trailer(255, 65535, 7, 29)}}
   \cup {[vals |-> [BaseValues EXCEPT ![EnumSteps[k].idx + 1] = AboveDomain(ConvClass(EnumSteps[k].conv))],
          tail |-> BaseTrailer] : k \in 1..Len(EnumSteps)}
   \cup {[vals |-> [BaseValues EXCEPT ![2] = n], tail |-> BaseTrailer] :
            n \in {NameTestProgram, NameLatin1}}
   \cup {[vals |-> [BaseValues EXCEPT ![1] = h], tail |-> BaseTrailer] :
            h \in {Zeros(4), <<88, 88, 88, 88>>}}
   \cup {[vals |-> BaseValues, tail |-> SubSeq(BaseTrailer, 1, 11) \o m] :
            m \in {<<69, 78, 68, 0>>}}
   \cup {[vals |-> [BaseValues EXCEPT ![4 + 1] = 2, ![76 + 1] = 23], tail |-> BaseTrailer]}

NoPlaced == [vals |-> << >>, tail |-> << >>]

\* the buffer of test_user_param_type_parsing: 160 zero bytes with the
\* markers at 0 and 156 and the packed selector byte b written at offset 102
TestBuffer(b) == PROG \o Zeros(98) \o <<b>> \o Zeros(53) \o PRED

\* v0 | v1<<2 | v2<<4 | v3<<6
PackSelectors(v0, v1, v2, v3) == v0 + 4 * v1 + 16 * v2 + 64 * v3

\* b"INVALID" + b"\x00" * 160 of test_parse_binary_malformed
InvalidBuffer == <<73, 78, 86, 65, 76, 73, 68>> \o Zeros(160)

\* the byte strings appended after a 160-byte record
Suffixes == {[i \in 1..n |-> 170] : n \in 1..MaxExtra}

\* the lengths of the short buffers the model decodes
ShortLengths == {0, 54, 148, 149, 159}

\* every buffer the model hands to parse_binary directly
BufferInputs ==
   {[how |-> "fields", placed |-> p, bytes |-> Built(p)] : p \in PlacedInputs}
   \cup {[how |-> "selectors", placed |-> NoPlaced, bytes |-> TestBuffer(b)] :
            b \in {PackSelectors(0, 1, 2, 3), PackSelectors(3, 2, 1, 0), PackSelectors(1, 1, 1, 1)}}
   \cup {[how |-> "invalid", placed |-> NoPlaced, bytes |-> InvalidBuffer]}
   \cup {[how |-> "extended", placed |-> p, bytes |-> Built(p) \o x] :
            p \in {q \in PlacedInputs : q.vals = BaseValues}, x \in Suffixes}
   \cup {[how |-> "short", placed |-> NoPlaced, bytes |-> Slice(b, 0, n)] :
            b \in {Built([vals |-> BaseValues, tail |-> BaseTrailer]), [i \in 1..160 |-> 255]},
            n \in ShortLengths}

ReadmeTxt == <<"r", "e", "a", "d", "m", "e", ".", "t", "x", "t">>

BaseBuffer == Built([vals |-> BaseValues, tail |-> BaseTrailer])

\* what zipfile makes of an input: not an archive (bytes is the input), or
\* an archive with its entries in listing order
RawSource(b) == [exists |-> TRUE, zip |-> FALSE, bytes |-> b, entries |-> << >>]
Archive(es) == [exists |-> TRUE, zip |-> TRUE, bytes |-> << >>, entries |-> es]
Missing == [exists |-> FALSE, zip |-> FALSE, bytes |-> << >>, entries |-> << >>]
NoSource == Missing

Entry(n, c) == [name |-> n, content |-> c]

\* the uploads and files the model unwraps; the entries of an archive have
\* distinct names
Sources ==
   {RawSource(b) : b \in {BaseBuffer, Slice(BaseBuffer, 0, 54), << >>, InvalidBuffer}}
   \cup {Archive(es) : es \in
           {<< >>,
            <<Entry(ProgFilename(0), BaseBuffer)>>,
            <<Entry(ProgFilename(0), BaseBuffer), Entry(ProgFilename(1), TestBuffer(228))>>,
            <<Entry(ReadmeTxt, Slice(BaseBuffer, 0, 54)), Entry(ProgFilename(1), BaseBuffer)>>,
            <<Entry(ReadmeTxt, InvalidBuffer)>>,
            <<Entry(ProgFilename(12), TestBuffer(228)), Entry(ProgFilename(0), BaseBuffer)>>}}

\* the program numbers the model passes to parse_file
ProgramNumbers == {0, 1, 12}

(* --------------------------- the state machine ------------------------- *)

NoCallYet == [op |-> "none", how |-> "", placed |-> NoPlaced, src |-> NoSource, n |-> 0]

LogEntry(c, d, o) == [call |-> c, data |-> d, outcome |-> o]

Init ==
   /\ call = NoCallYet
   /\ data = << >>
   /\ outcome = NoCall
   /\ log = << >>

\* a caller invokes ProgramParser.parse_binary on a byte string
ParseBinary ==
   /\ Len(log) < MaxCalls
   /\ \E inp \in BufferInputs :
         LET c == [op |-> "parse_binary", how |-> inp.how, placed |-> inp.placed,
                   src |-> NoSource, n |-> 0]
             o == parse_binary(inp.bytes)
         IN  /\ call' = c
             /\ data' = inp.bytes
             /\ outcome' = o
             /\ log' = Append(log, LogEntry(c, inp.bytes, o))

\* a caller (a conversion endpoint) invokes ProgramParser.parse_from_upload
ParseFromUpload ==
   /\ Len(log) < MaxCalls
   /\ \E src \in Sources :
         LET c == [op |-> "parse_from_upload", how |-> "", placed |-> NoPlaced,
                   src |-> src, n |-> 0]
             o == parse_from_upload(src)
             d == UploadSelection(src).bytes
         IN  /\ call' = c
             /\ data' = d
             /\ outcome' = o
             /\ log' = Append(log, LogEntry(c, d, o))

\* a caller invokes ProgramParser.parse_file on a path
ParseFile ==
   /\ Len(log) < MaxCalls
   /\ \E src \in Sources \cup {Missing}, n \in ProgramNumbers :
         LET c == [op |-> "parse_file", how |-> "", placed |-> NoPlaced,
                   src |-> src, n |-> n]
             o == parse_file(src, n)
             d == IF src.exists THEN FileSelection(src, n).bytes ELSE << >>
         IN  /\ call' = c
             /\ data' = d
             /\ outcome' = o
             /\ log' = Append(log, LogEntry(c, d, o))

Next == ParseBinary \/ ParseFromUpload \/ ParseFile

Spec == Init /\ [][Next]_vars

\* a display helper is about to be called on the raw value v
HelperInput(v) == [op |-> "none", how |-> "", placed |-> NoPlaced, src |-> NoSource, n |-> v]

\* the helpers are static and pure: one call on one raw value, drawn from
\* the values a 10-bit field holds and a few above them
InitDisplay ==
   /\ \E v \in 0..MaxValue : call = HelperInput(v)
   /\ data = << >>
   /\ outcome = NoCall
   /\ log = << >>

\* a caller (the parameter listing of parse_file.py) renders a pitch field
PitchCents ==
   /\ call.op = "none"
   /\ call' = [call EXCEPT !.op = "pitch_cents"]
   /\ outcome' = Return(pitch_cents(call.n), "str")
   /\ UNCHANGED <<data, log>>

\* a caller renders the EG INT field
EgIntPercent ==
   /\ call.op = "none"
   /\ call' = [call EXCEPT !.op = "eg_int_percent"]
   /\ outcome' = Return(eg_int_percent(call.n), "float")
   /\ UNCHANGED <<data, log>>

\* a caller renders the program level
ProgramLevelDecibel ==
   /\ call.op = "none"
   /\ call' = [call EXCEPT !.op = "program_level_decibel"]
   /\ outcome' = Return(program_level_decibel(call.n), "str")
   /\ UNCHANGED <<data, log>>

\* a caller renders a bipolar percentage
MinusToPlus100String ==
   /\ call.op = "none"
   /\ call' = [call EXCEPT !.op = "minus_to_plus_100_string"]
   /\ outcome' = Return(minus_to_plus_100_string(call.n), "str")
   /\ UNCHANGED <<data, log>>

\* a caller renders the voice mode depth of a program in voice mode vm_type
VoiceModeDepthLabel ==
   /\ call.op = "none"
   /\ \E vm_type \in VoiceModeType :
         /\ call' = [call EXCEPT !.op = "voice_mode_depth_label",
                                 !.how = VoiceModeTypeName[vm_type + 1]]
         /\ outcome' = Return(voice_mode_depth_label(vm_type, call.n), "str")
   /\ UNCHANGED <<data, log>>

\* a caller renders the LFO rate of a program in LFO mode mode
LfoRate ==
   /\ call.op = "none"
   /\ \E mode \in LFOMode :
         /\ call' = [call EXCEPT !.op = "lfo_rate", !.how = LFOModeName[mode + 1]]
         /\ outcome' = Return(lfo_rate(call.n, mode), "str")
   /\ UNCHANGED <<data, log>>

(* ----------------------- switches of the diagram ------------------------ *)

\* fill of the LED of the selected option; the others are transparent
SWITCH_ACTIVE_COLOR == "red"

\* the option of Python index i of a list of options
OptionAt(options, i) == options[i + 1]

\* the LEDs a switch draws, top first: the options are walked from the last
\* to the first, an empty option draws nothing, and the LED whose index is
\* selected_index is filled
create_switch(selected_index, options) ==
   LET n == Len(options)
       walked == [k \in 1..n |-> n - k]
       drawn == SelectSeq(walked, LAMBDA i : OptionAt(options, i) # "")
   IN  [k \in 1..Len(drawn) |->
          [label |-> OptionAt(options, drawn[k]),
           fill |-> IF drawn[k] = selected_index
                       THEN SWITCH_ACTIVE_COLOR ELSE "transparent"]]

\* the lists of options of the switches
voice_modes == <<"ARP/LATCH", "CHORD", "UNISON", "POLY">>
wave_options == <<"", "SQR", "TRI", "SAW">>
eg_targets == <<"Cutoff", "Pitch 2", "Pitch">>
lfo_wave_options == <<"SQR", "TRI", "SAW">>
lfo_mode_options == <<"1-Shot", "Normal", "BPM">>
lfo_targets == <<"Cutoff", "Shape", "Pitch">>

\* the switches drawn for enumerated fields: the field, its enum class and
\* members, the options, and what the call adds to int(field) to select
Switches ==
   {[field |-> "voice_mode_type", cls |-> "VoiceModeType", members |-> VoiceModeType,
     options |-> voice_modes, offset |-> -1],
    [field |-> "vco1_wave", cls |-> "VcoWave", members |-> VcoWave,
     options |-> wave_options, offset |-> 0],
    [field |-> "vco2_wave", cls |-> "VcoWave", members |-> VcoWave,
     options |-> wave_options, offset |-> 0],
    [field |-> "eg_target", cls |-> "EGTarget", members |-> EGTarget,
     options |-> eg_targets, offset |-> 0],
    [field |-> "lfo_wave", cls |-> "VcoWave", members |-> VcoWave,
     options |-> lfo_wave_options, offset |-> 0],
    [field |-> "lfo_mode", cls |-> "LFOMode", members |-> LFOMode,
     options |-> lfo_mode_options, offset |-> 0],
    [field |-> "lfo_target", cls |-> "LFOTarget", members |-> LFOTarget,
     options |-> lfo_targets, offset |-> 0]}

\* one switch of the diagram is drawn for a program whose field holds call.n
CreateSwitch ==
   /\ call.op = "none"
   /\ \E sw \in Switches :
         /\ call.n \in sw.members
         /\ call' = [call EXCEPT !.op = "create_switch", !.how = sw.field]
         /\ outcome' = Return(create_switch(call.n + sw.offset, sw.options), "svg")
   /\ UNCHANGED <<data, log>>

NextDisplay ==
   \/ PitchCents \/ EgIntPercent \/ ProgramLevelDecibel \/ MinusToPlus100String
   \/ VoiceModeDepthLabel \/ LfoRate \/ CreateSwitch

SpecDisplay == InitDisplay /\ [][NextDisplay]_vars

(* ------------------------ web/main.py: endpoints ----------------------- *)

\* the response of an endpoint: the status code, for an error the fixed head
\* of its detail and the message of the exception it reports, for a success
\* the media type of the body
Response(status, detail, cause, media_type) ==
   [status |-> status, detail |-> detail, cause |-> cause, media_type |-> media_type]

\* a report generator that renders a missing program as an empty document
generate_report_lenient(format, program_data) ==
   Return([format |-> format, program |-> program_data.value[1]], "str")

\* JsonReportGenerator.generate_report and SVGGenerator.generate_report on
\* the value the parser returned: both read attributes of program_data, so
\* None raises AttributeError; a ProgramData yields the document
generate_report(format, program_data) ==
   IF program_data.type = "NoneType"
   THEN Raise("AttributeError", "'NoneType' object has no attribute", -1, "")
   ELSE Return([format |-> format, program |-> program_data.value[1]], "str")

\* the body of convert_to_json (format "JSON") and convert_to_svg (format
\* "SVG") on the uploaded content src: every exception of the parse and of
\* the rendering is caught and reported as HTTPException(500)
convert(format, src) ==
   LET detail == IF format = "JSON" THEN "Error converting to JSON"
                 ELSE "Error converting to SVG"
       media_type == IF format = "JSON" THEN "application/json" ELSE "image/svg+xml"
       respond(program_data, report) ==
          IF program_data.kind = "raise" THEN Response(500, detail, program_data.msg, "")
          ELSE IF report.kind = "raise" THEN Response(500, detail, report.msg, "")
          ELSE Response(200, "", "", media_type)
   IN  CHOOSE response \in
          {respond(program_data, generate_report(format, program_data)) :
              program_data \in {parse_from_upload(src)}} : TRUE

\* a client posts a file to /convert/json
ConvertToJson ==
   /\ Len(log) < MaxCalls
   /\ \E src \in Sources :
         LET c == [op |-> "convert_to_json", how |-> "", placed |-> NoPlaced,
                   src |-> src, n |-> 0]
             o == convert("JSON", src)
             d == UploadSelection(src).bytes
         IN  /\ call' = c
             /\ data' = d
             /\ outcome' = o
             /\ log' = Append(log, LogEntry(c, d, o))

\* a client posts a file to /convert/svg
ConvertToSvg ==
   /\ Len(log) < MaxCalls
   /\ \E src \in Sources :
         LET c == [op |-> "convert_to_svg", how |-> "", placed |-> NoPlaced,
                   src |-> src, n |-> 0]
             o == convert("SVG", src)
             d == UploadSelection(src).bytes
         IN  /\ call' = c
             /\ data' = d
             /\ outcome' = o
             /\ log' = Append(log, LogEntry(c, d, o))

NextWeb == ConvertToJson \/ ConvertToSvg

\* the application serves requests one after the other
SpecWeb == Init /\ [][NextWeb]_vars

(* ------------------------------ properties ----------------------------- *)

TooShort == Raise("ValueError", "Data too short", -1, "")
MalformedLayout == Raise("ValueError", "Failed to parse binary data", -1, "")
UnknownEnumValue(raw, cls) == Raise("ValueError", "is not a valid", raw, cls)

\* the last call was parse_binary on a buffer built field by field
DecodedBuilt == call.op = "parse_binary" /\ call.how = "fields"

\* the enum assignments whose placed code is outside the class called
OutOfDomainSteps(placed) ==
   {k \in 1..Len(EnumSteps) :
      LET s == EnumSteps[k]
          v == placed.vals[s.idx + 1]
      IN  /\ v \notin EnumMembers(ConvClass(s.conv))
          /\ ~(s.conv = "ModFxTypeOrNone" /\ v = 0)}

\* every enum code placed is in its domain and both strings are ASCII
InDomain(placed) ==
   /\ OutOfDomainSteps(placed) = {}
   /\ IsAscii(placed.vals[1])
   /\ IsAscii(placed.vals[2])

\* the value a field is to hold for the raw value v placed in it
ExpectedField(conv, v) ==
   CASE conv = "ascii" -> rstrip(v)
     [] conv = "bool" -> (v # 0)
     [] OTHER -> v

\* the call returned a ProgramData
ReturnedRecord == outcome.kind = "return" /\ outcome.type = "ProgramData"

\* C1: every 160-byte buffer built field by field with in-domain enum codes
\* decodes to a Record (nothing is raised) in which each field holds the
\* value placed for it: strings without their NUL padding, 16-bit values as
\* placed, booleans true iff the raw value is nonzero, enums the raw code.
C1_RoundTrip ==
   (DecodedBuilt /\ Len(data) = 160 /\ InDomain(call.placed)) =>
      /\ ReturnedRecord
      /\ \A k \in 1..Len(FieldSteps) :
            LET s == FieldSteps[k]
            IN  s.idx < Len(FmtFields) =>
                   outcome.value[1][s.field] = ExpectedField(s.conv, call.placed.vals[s.idx + 1])

\* C2: parse_binary on a buffer of length 0..159 raises the too-short error,
\* whatever the bytes are (a length the format could consume and bytes no
\* field conversion accepts included: the length is checked first).
C2_TooShort ==
   (call.op = "parse_binary" /\ Len(data) < 160) => outcome = TooShort

C2_Witness ==
   /\ call.op = "parse_binary"
   /\ Len(data) = 159
   /\ data[1] = 255
   /\ outcome = TooShort

\* the first bytes of the buffer are not the magic header
WrongMagic == Slice(data, 0, 4) # PROG

\* C3: parse_binary on a buffer of at least 160 bytes whose first bytes are
\* not the expected pattern (wrong magic bytes) raises the malformed-layout
\* error.
C3_Malformed ==
   (call.op = "parse_binary" /\ Len(data) >= 160 /\ WrongMagic) => outcome = MalformedLayout

C3_Witness ==
   /\ call.op = "parse_binary"
   /\ data = InvalidBuffer
   /\ outcome = MalformedLayout

\* C4: a raw code outside the domain of a strict enumerated field, in an
\* otherwise valid buffer, makes parse_binary raise the unknown-enum-value
\* error that identifies the raw code; no Record is returned.
C4_UnknownEnum ==
   \A k \in 1..Len(EnumSteps) :
      (/\ DecodedBuilt
       /\ Len(data) = 160
       /\ OutOfDomainSteps(call.placed) = {k}
       /\ ConvClass(EnumSteps[k].conv) \notin BestEffortClasses)
      => outcome = UnknownEnumValue(call.placed.vals[EnumSteps[k].idx + 1],
                                    ConvClass(EnumSteps[k].conv))

\* C5: a 160-byte record whose user-parameter-type byte (offset 102) is
\* v0 | v1<<2 | v2<<4 | v3<<6 decodes, user_param1_type .. user_param4_type
\* are v0 .. v3 in that order and user_param1234_type is the raw byte.
C5_PackedSelectors ==
   \A v0 \in 0..3, v1 \in 0..3, v2 \in 0..3, v3 \in 0..3 :
      (/\ call.op = "parse_binary"
       /\ call.how = "selectors"
       /\ data[102 + 1] = PackSelectors(v0, v1, v2, v3))
      => /\ ReturnedRecord
         /\ outcome.value[1].user_param1_type = v0
         /\ outcome.value[1].user_param2_type = v1
         /\ outcome.value[1].user_param3_type = v2
         /\ outcome.value[1].user_param4_type = v3
         /\ outcome.value[1].user_param1234_type = data[102 + 1]

\* C6: a raw code outside the documented range of a CV / assignment style
\* field (joystick assign plus/minus, CV-in mode, CV-in 1/2 assign) does not
\* make parse_binary fail: a Record is returned and the field holds the raw
\* code.
C6_BestEffort ==
   \A k \in 1..Len(EnumSteps) :
      (/\ DecodedBuilt
       /\ Len(data) = 160
       /\ OutOfDomainSteps(call.placed) = {k}
       /\ ConvClass(EnumSteps[k].conv) \in BestEffortClasses)
      => /\ ReturnedRecord
         /\ outcome.value[1][EnumSteps[k].field] = call.placed.vals[EnumSteps[k].idx + 1]

\* C7: with valid strict-window fields, no value of the second selector byte
\* (offset 148) or of the trailing bytes (offsets 151..155) makes
\* parse_binary fail: a Record is returned, and an after-touch code that
\* does not decode leaves midi_after_touch_assign at its default.
C7_TolerantTrailing ==
   (DecodedBuilt /\ Len(data) = 160 /\ InDomain(call.placed)) =>
      /\ ReturnedRecord
      /\ data[155 + 1] \notin AssignTarget =>
            outcome.value[1].midi_after_touch_assign = ProgramData.midi_after_touch_assign

\* C8: bytes after the 160-byte window are ignored: decoding b followed by
\* any suffix has the outcome of decoding b, and a valid record followed by
\* extra bytes still decodes.
C8_ExtraBytesIgnored ==
   (call.op = "parse_binary" /\ Len(data) >= 160) =>
      /\ outcome = parse_binary(Slice(data, 0, 160))
      /\ (call.how = "extended" /\ InDomain(call.placed)) => ReturnedRecord

\* two logged calls were given the same input
SameInput(e1, e2) ==
   /\ e1.call.op = e2.call.op
   /\ e1.call.src = e2.call.src
   /\ e1.call.n = e2.call.n
   /\ e1.data = e2.data

C10_RecordOrError ==
   call.op \in {"parse_binary", "parse_file", "parse_from_upload"} =>
      \/ outcome.kind = "raise"
      \/ ReturnedRecord

\* the last call was parse_binary on a built buffer holding a code outside
\* the domain of an enumerated field
DecodedUnknownCode ==
   DecodedBuilt /\ Len(data) >= 160 /\ OutOfDomainSteps(call.placed) # {}

\* C11: a failing decode reports one error of one of three kinds, short
\* input, corrupt layout or unrecognised enum value, and each cause yields
\* its own kind: a short buffer the too-short error, a buffer holding an
\* out-of-domain enum code the unknown-enum-value error; no failure is of a
\* fourth kind.
C11_ThreeErrorKinds ==
   (call.op = "parse_binary" /\ outcome.kind = "raise") =>
      /\ \/ outcome = TooShort
         \/ outcome = MalformedLayout
         \/ outcome = UnknownEnumValue(outcome.raw, outcome.cls)
      /\ Len(data) < 160 <=> outcome = TooShort
      /\ DecodedUnknownCode => outcome = UnknownEnumValue(outcome.raw, outcome.cls)

\* the last call unwrapped an archive that has entries
UnwrappedArchive(op) ==
   call.op = op /\ call.src.exists /\ call.src.zip /\ Len(call.src.entries) > 0

\* 'Prog_' + n as three decimal digits + '.prog_bin', 0 <= n <= 999
PaddedName(n) ==
   ProgPrefix
   \o <<DigitChar(n \div 100), DigitChar((n \div 10) % 10), DigitChar(n % 10)>>
   \o DotProgBin

\* the positions of the listing whose entry satisfies Test
Positions(entries, Test(_)) == {i \in 1..Len(entries) : Test(entries[i])}

\* the content of the first listed entry that satisfies Test, of the first
\* listed entry when none does
FirstOr(entries, Test(_)) ==
   LET ps == Positions(entries, Test)
   IN  IF ps = {} THEN entries[1].content
       ELSE entries[CHOOSE i \in ps : \A j \in ps : i <= j].content

\* C12: parse_file(path, n) on an archive decodes the entry named 'Prog_' +
\* n zero-padded to three digits + '.prog_bin' whenever such an entry
\* exists, whatever its position in the listing, and the first listed entry
\* when no entry has that name, instead of failing.
C12_FileSelectsNamedEntry ==
   UnwrappedArchive("parse_file") =>
      LET Named(e) == e.name = PaddedName(call.n)
      IN  /\ data = FirstOr(call.src.entries, Named)
          /\ outcome = parse_binary(data)
          /\ outcome # Raise("ValueError", "No program files found", -1, "")

\* the named entry exists, is listed second, and is the one decoded
C12_Witness ==
   /\ UnwrappedArchive("parse_file")
   /\ call.n = 1
   /\ Len(call.src.entries) = 2
   /\ call.src.entries[2].name =
         <<"P", "r", "o", "g", "_", "0", "0", "1", ".", "p", "r", "o", "g", "_", "b", "i", "n">>
   /\ data = call.src.entries[2].content
   /\ data # call.src.entries[1].content
   /\ outcome = MalformedLayout

\* no entry is named for the program number and the first one is decoded
C12_FallbackWitness ==
   /\ UnwrappedArchive("parse_file")
   /\ call.n = 1
   /\ \A i \in 1..Len(call.src.entries) : call.src.entries[i].name # PaddedName(1)
   /\ Len(call.src.entries) = 2
   /\ data = call.src.entries[1].content

\* the error raised for an archive without entries
NoEntries == Raise("ValueError", "No program files found", -1, "")

\* the last call unwrapped an archive that has no entries
UnwrappedEmptyArchive ==
   /\ call.op \in {"parse_file", "parse_from_upload"}
   /\ call.src.exists /\ call.src.zip /\ Len(call.src.entries) = 0

\* C13: unwrapping an archive that contains zero entries fails with the
\* no-entries error (ValueError 'No program files found') on both entry
\* points, parse_file and parse_from_upload; neither returns a value.
C13_EmptyArchiveFails ==
   UnwrappedEmptyArchive => (outcome = NoEntries /\ outcome.kind # "return")

\* the last call was an upload of bytes zipfile cannot open as an archive
UploadedRaw ==
   call.op = "parse_from_upload" /\ call.src.exists /\ ~call.src.zip

\* C14: when the upload cannot be opened as an archive the whole input is
\* passed unchanged to the decoder: the outcome of parse_from_upload(bytes)
\* is the outcome of parse_binary(bytes), and the failure to open it as an
\* archive is never itself reported as an error.
C14_RawPassesThrough ==
   UploadedRaw =>
      /\ data = call.src.bytes
      /\ outcome = parse_binary(call.src.bytes)
      /\ (Len(call.src.bytes) < 160 => outcome = TooShort)
      /\ (Len(call.src.bytes) >= 160 => outcome = MalformedLayout)
      /\ outcome.exc # "BadZipFile"

\* a raw upload longer than a record reaches the decoder whole
C14_Witness ==
   /\ UploadedRaw
   /\ Len(call.src.bytes) > 160
   /\ data = call.src.bytes
   /\ outcome = MalformedLayout

\* C15: parse_from_upload on a non-empty archive decodes the first-listed
\* entry whose name ends in '.prog_bin' when any such entry exists, and the
\* first-listed entry otherwise; with several program entries it decodes
\* the first one.
C15_UploadPrefersProgBin ==
   UnwrappedArchive("parse_from_upload") =>
      LET IsProgBin(e) == endswith(e.name, DotProgBin)
      IN  /\ data = FirstOr(call.src.entries, IsProgBin)
          /\ outcome = parse_binary(data)

\* the only program entry is listed second, after an entry of another
\* kind, and is the one decoded
C15_Witness ==
   /\ UnwrappedArchive("parse_from_upload")
   /\ Len(call.src.entries) = 2
   /\ call.src.entries[1].name = <<"r", "e", "a", "d", "m", "e", ".", "t", "x", "t">>
   /\ endswith(call.src.entries[2].name, <<".", "p", "r", "o", "g", "_", "b", "i", "n">>)
   /\ data = call.src.entries[2].content
   /\ data # call.src.entries[1].content
   /\ outcome = MalformedLayout

\* the last call was the display helper op
Rendered(op) == call.op = op /\ outcome.kind = "return"

\* the value the last call returned
Result == outcome.value[1]

C17_EgIntFlatZones ==
   Rendered("eg_int_percent") =>
      /\ (call.n \in 0..11 => Result = Percent(-100))
      /\ (call.n \in 492..532 => Result = Percent(0))
      /\ (call.n \in 1013..1023 => Result = Percent(100))

\* C18: eg_int_percent is monotonically non-decreasing over 0..1023: for
\* all a <= b in 0..1023, eg_int_percent(a) <= eg_int_percent(b).
C18_EgIntMonotone ==
   (Rendered("eg_int_percent") /\ call.n \in 0..1023) =>
      \A a \in 0..call.n : eg_int_percent(a) <= Result

\* c is a decimal digit character
IsDigit(c) == \E d \in 0..9 : DigitChar(d) = c

\* s is the decimal numeral of a natural number, without leading zeros
IsNumeral(s) ==
   /\ Len(s) > 0
   /\ \A i \in 1..Len(s) : IsDigit(s[i])
   /\ (Len(s) > 1 => s[1] # "0")

RECURSIVE NumeralValue(_)
\* the natural number a numeral denotes
NumeralValue(s) ==
   IF Len(s) = 0 THEN 0
   ELSE 10 * NumeralValue(SubSeq(s, 1, Len(s) - 1))
        + (CHOOSE d \in 0..9 : DigitChar(d) = s[Len(s)])

\* s is an optional sign followed by a numeral: '+' exactly when the number
\* x it is to denote is positive, '-' when x is negative, and the numeral
\* is the magnitude of x
SignedNumeralOf(s, x) ==
   LET numeral == IF x = 0 THEN s ELSE Tail(s)
   IN  /\ Len(s) > 0
       /\ (x > 0 => s[1] = "+")
       /\ (x < 0 => s[1] = "-")
       /\ IsNumeral(numeral)
       /\ NumeralValue(numeral) = (IF x < 0 THEN -x ELSE x)

\* s is the text of t tenths with one decimal place: a '+' exactly when
\* t > 0, a '-' when t < 0, the numeral of the whole part, a point and one
\* digit
TenthsOf(s, t) ==
   LET a == IF t < 0 THEN -t ELSE t
       m == Len(s) - 2
       whole == SubSeq(s, 1, m)
   IN  /\ Len(s) >= 3
       /\ s[Len(s) - 1] = "."
       /\ s[Len(s)] = DigitChar(a % 10)
       /\ IF t = 0 THEN whole = <<"0">>
          ELSE /\ m >= 2
               /\ whole[1] = (IF t > 0 THEN "+" ELSE "-")
               /\ IsNumeral(Tail(whole))
               /\ NumeralValue(Tail(whole)) = a \div 10

\* the last call rendered db = (v - 12) / 5 - 18, that is 2 * (v - 12) - 180
\* tenths, with one decimal place, a '+' for positive values and the
\* suffix 'dB'
RenderedDecibel ==
   /\ Len(Result) > 2
   /\ SubSeq(Result, Len(Result) - 1, Len(Result)) = <<"d", "B">>
   /\ TenthsOf(SubSeq(Result, 1, Len(Result) - 2), 2 * (call.n - 12) - 180)

C20_BipolarPercent ==
   (Rendered("minus_to_plus_100_string") /\ call.n \in 0..200) =>
      /\ Len(Result) > 1
      /\ Result[Len(Result)] = "%"
      /\ SignedNumeralOf(SubSeq(Result, 1, Len(Result) - 1), call.n - 100)
      /\ (call.n = 0 => Result = <<"-", "1", "0", "0", "%">>)
      /\ (call.n = 100 => Result = <<"0", "%">>)
      /\ (call.n = 150 => Result = <<"+", "5", "0", "%">>)
      /\ (call.n = 200 => Result = <<"+", "1", "0", "0", "%">>)

\* the centre value renders without a sign
C20_Witness ==
   /\ Rendered("minus_to_plus_100_string")
   /\ call.n = 100
   /\ Result = <<"0", "%">>

\* the ranges are count bands that are pairwise disjoint, contiguous and
\* cover 0..1023
BandsPartition(ranges, count) ==
   /\ Len(ranges) = count
   /\ ranges[1].min_val = 0
   /\ ranges[count].max_val = 1023
   /\ \A k \in 1..count : ranges[k].min_val <= ranges[k].max_val
   /\ \A k \in 1..(count - 1) : ranges[k + 1].min_val = ranges[k].max_val + 1

\* the bands of ranges that hold v
BandsHolding(ranges, v) ==
   {k \in 1..Len(ranges) : ranges[k].min_val <= v /\ v <= ranges[k].max_val}

\* the result is the label of the one band of ranges that holds the value
OneBandLabel(ranges) ==
   /\ Cardinality(BandsHolding(ranges, call.n)) = 1
   /\ \A k \in BandsHolding(ranges, call.n) : Result = ranges[k].label

\* the result is the decimal string of the raw value
RawDecimal == IsNumeral(Result) /\ NumeralValue(Result) = call.n

BpmLabels ==
   <<<<"4">>,
     <<"2">>,
     <<"1">>,
     <<"3", "/", "4">>,
     <<"1", "/", "2">>,
     <<"3", "/", "8">>,
     <<"1", "/", "3">>,
     <<"1", "/", "4">>,
     <<"3", "/", "1", "6">>,
     <<"1", "/", "6">>,
     <<"1", "/", "8">>,
     <<"1", "/", "1", "2">>,
     <<"1", "/", "1", "6">>,
     <<"1", "/", "2", "4">>,
     <<"1", "/", "3", "2">>,
     <<"1", "/", "3", "6">>>>

\* C22: lfo_rate(v, BPM) for every v in 0..1023 returns the label at index
\* (v div 64) of the 16-entry list '4' .. '1/36' (16 contiguous bands of
\* width 64 with no gap or overlap); for every other mode it returns the
\* decimal string of v.
C22_LfoRateBands ==
   Rendered("lfo_rate") =>
      /\ Len(BpmLabels) = 16
      /\ (call.how = "BPM" /\ call.n \in 0..1023 => Result = BpmLabels[(call.n \div 64) + 1])
      /\ (call.how # "BPM" => RawDecimal)

\* the last value of the band of index 7 renders as '1/4'
C22_Witness ==
   /\ Rendered("lfo_rate")
   /\ call.how = "BPM"
   /\ call.n = 511
   /\ Result = <<"1", "/", "4">>

\* the last call was a request to a conversion endpoint
Converted == call.op \in {"convert_to_json", "convert_to_svg"}

\* the detail an endpoint gives to its errors
ErrorDetail(op) ==
   IF op = "convert_to_json" THEN "Error converting to JSON" ELSE "Error converting to SVG"

\* the upload of the last request is one whose unwrap or decode fails: not
\* an archive, or an archive without entries, or an archive whose selected
\* entry is shorter than a record or does not start with the magic bytes
FailingUpload ==
   \/ ~call.src.zip /\ Len(call.src.bytes) < 160
   \/ ~call.src.zip /\ Slice(call.src.bytes, 0, 4) # PROG
   \/ call.src.zip /\ Len(call.src.entries) = 0
   \/ call.src.zip /\ Len(call.src.entries) > 0 /\ Len(data) < 160
   \/ call.src.zip /\ Len(call.src.entries) > 0 /\ Slice(data, 0, 4) # PROG

\* C23: for both conversion endpoints, every upload whose unwrap, decode or
\* rendering fails (an empty upload, a non-program byte stream, an empty
\* archive, a short or corrupt record) yields an error response with status
\* 500 whose detail starts with 'Error converting to ...', and a status-200
\* response is produced only when the decoder returned a Record.
C23_FailuresAre500 ==
   Converted =>
      /\ (FailingUpload => outcome.status = 500 /\ outcome.detail = ErrorDetail(call.op))
      /\ outcome.status \in {200, 500}
      /\ (outcome.status = 500 => outcome.detail = ErrorDetail(call.op))
      /\ (outcome.status = 200 =>
            LET decoded == parse_from_upload(call.src)
            IN  decoded.kind = "return" /\ decoded.type = "ProgramData")

\* an archive without entries posted to /convert/svg is answered with 500
C23_Witness ==
   /\ call.op = "convert_to_svg"
   /\ call.src.zip
   /\ Len(call.src.entries) = 0
   /\ outcome.status = 500
   /\ outcome.detail = "Error converting to SVG"

\* the last call was parse_binary on a buffer that passes the length check
DecodedFullLength == call.op = "parse_binary" /\ Len(data) >= 160

\* the sum of the declared field widths of a format: 4 + 12 for the two
\* leading strings, one byte per 8-bit field, two per 16-bit field, 4 for
\* the closing string
DeclaredWidth(fmt) ==
   4 + 12
   + Cardinality({k \in 1..Len(fmt) : fmt[k] = "B"})
   + 2 * Cardinality({k \in 1..Len(fmt) : fmt[k] = "H"})
   + 4

\* C24: the fixed-layout pattern that parse_binary applies to data[:160]
\* describes exactly 160 bytes: the sum of its declared field widths equals
\* the length of the window it is applied to, so a buffer of at least 160
\* bytes is never rejected for layout width alone.
C24_LayoutDescribesWindow ==
   DecodedFullLength =>
      /\ DeclaredWidth(Fmt) = 160
      /\ calcsize(Fmt) = Len(Slice(data, 0, Window))
      /\ ~struct_unpack(Fmt, Slice(data, 0, Window)).error

\* the tuple indices parse_binary reads from the unpacked result
ReadIndices ==
   {FieldSteps[k].idx : k \in 1..Len(FieldSteps)}
   \cup {102, TransposeStep.idx, EndMarkerStep.idx}

\* C25: the fixed layout yields exactly the values the decoder consumes:
\* every tuple index that parse_binary reads from the unpacked result (0
\* through 104, the last being the end marker) exists, so field extraction
\* never reads past the end of the unpacked values.
C25_IndicesExist ==
   DecodedFullLength =>
      /\ ReadIndices = 0..104
      /\ \A idx \in ReadIndices : idx < Len(Fmt)
      /\ outcome # IndexError

\* the byte offsets item k (1-based) of the format is unpacked from
ItemOffsets(k) == SizeUpTo(Fmt, k - 1)..(SizeUpTo(Fmt, k) - 1)

\* the items of the format whose value the decoder assigns to a field
AssignedItems == {k \in 1..Len(Fmt) : k - 1 \in ReadIndices}

\* the byte offsets of the two later reads: data[148:149] and data[151:156]
SelectorOffsets == 148..148
RemainingOffsets == 151..155

\* C26: every byte offset of the record contributes to at most one Record
\* field: the byte ranges consumed by the fixed-layout pass and by the two
\* later reads (offset 148; offsets 151..155) are pairwise disjoint.
C26_DisjointRanges ==
   DecodedFullLength =>
      /\ \A j, k \in AssignedItems : j # k => ItemOffsets(j) \cap ItemOffsets(k) = {}
      /\ \A k \in AssignedItems : ItemOffsets(k) \cap SelectorOffsets = {}
      /\ \A k \in AssignedItems : ItemOffsets(k) \cap RemainingOffsets = {}
      /\ SelectorOffsets \cap RemainingOffsets = {}

\* the byte offsets of the header and of the end marker
MarkerOffsets == (0..3) \cup (156..159)

\* a and b are distinct buffers of at least 160 bytes that differ only in
\* their header and/or end-marker bytes, which are ASCII in both
DifferOnlyInMarkers(a, b) ==
   /\ Len(a) >= 160
   /\ Len(a) = Len(b)
   /\ a # b
   /\ \A i \in 1..Len(a) : (i - 1) \notin MarkerOffsets => a[i] = b[i]
   /\ \A i \in 1..Len(a) : (i - 1) \in MarkerOffsets => a[i] < 128 /\ b[i] < 128

\* the record p holds the marker text of the buffer d, NUL-trimmed
HoldsMarkerText(p, d) ==
   /\ p.header = rstrip(Slice(d, 0, 4))
   /\ p.program_end_marker = rstrip(Slice(d, 156, 160))

\* the records p and q agree on every field but the two markers
SameButMarkers(p, q) ==
   \A f \in DOMAIN p : f \notin {"header", "program_end_marker"} => p[f] = q[f]

PitchTouching == <<4, 356, 476, 492, 532, 548, 668, 1020>>

\* the same for eg_int_percent
EgIntTouching == <<11, 492, 532, 1013>>

PitchBreakpoints == <<0, 4, 356, 476, 492, 532, 548, 668, 1020, 1023>>

\* the number of cents a pitch text s denotes: s is an integer numeral
\* followed by 'C'
CentsOf(s) ==
   LET body == SubSeq(s, 1, Len(s) - 1)
   IN  IF body[1] = "-" THEN -NumeralValue(Tail(body)) ELSE NumeralValue(body)

\* s is a well-formed pitch text
IsCentsText(s) ==
   /\ Len(s) >= 2
   /\ s[Len(s)] = "C"
   /\ LET body == SubSeq(s, 1, Len(s) - 1)
      IN  IF body[1] = "-" THEN IsNumeral(Tail(body)) /\ NumeralValue(Tail(body)) > 0
          ELSE IsNumeral(body)

\* the cent value at a breakpoint
CentsAt(b) == CentsOf(pitch_cents(b))

\* r is the integer nearest to num / den (den > 0), the even one of the two
\* when num / den lies halfway between two integers
NearestTiesToEven(r, num, den) ==
   LET d == 2 * (r * den - num)
   IN  \/ -den < d /\ d < den
       \/ (d = den \/ d = -den) /\ r % 2 = 0

\* the last call rendered a value of band k as the rounded linear
\* interpolation between the cent values at the two breakpoints of the band
Interpolated(k) ==
   LET lo == PitchBreakpoints[k]
       hi == PitchBreakpoints[k + 1]
   IN  /\ IsCentsText(Result)
       /\ NearestTiesToEven(CentsOf(Result),
                            CentsAt(lo) * (hi - lo) + (call.n - lo) * (CentsAt(hi) - CentsAt(lo)),
                            hi - lo)

\* band k rises by num / den cents per raw step
BandSlope(k, num, den) ==
   (CentsAt(PitchBreakpoints[k + 1]) - CentsAt(PitchBreakpoints[k])) * den
      = (PitchBreakpoints[k + 1] - PitchBreakpoints[k]) * num

\* the bands that hold the raw value of the last call
BandsOfValue ==
   {k \in 1..9 : PitchBreakpoints[k] <= call.n /\ call.n <= PitchBreakpoints[k + 1]}

ValueLabel(sw, v) ==
   CASE sw.cls = "VcoWave" -> <<"SQR", "TRI", "SAW">>[v + 1]
     [] sw.cls = "VoiceModeType" ->
           <<"", "ARP/LATCH", "CHORD", "UNISON", "POLY">>[v + 1]
     [] sw.cls = "EGTarget" -> <<"Cutoff", "Pitch 2", "Pitch">>[v + 1]
     [] sw.cls = "LFOMode" -> <<"1-Shot", "Normal", "BPM">>[v + 1]
     [] sw.cls = "LFOTarget" -> <<"Cutoff", "Shape", "Pitch">>[v + 1]

\* the labels of the highlighted LEDs of the switch that was drawn
Highlighted == {Result[k].label : k \in {j \in DOMAIN Result : Result[j].fill = "red"}}

HighlightedCount == Cardinality({j \in DOMAIN Result : Result[j].fill = "red"})

\* C30: every switch drawn for an enumerated field highlights exactly one
\* LED, and that LED carries the label of the field's value (SQR, TRI or SAW
\* for the three wave fields)
C30_SwitchHighlightsValue ==
   Rendered("create_switch") =>
      \A sw \in Switches :
         sw.field = call.how =>
            /\ HighlightedCount = 1
            /\ Highlighted = {ValueLabel(sw, call.n)}

\* the same, for the fields whose list of options starts at the first member:
\* these switches are drawn as described
SwitchesFromFirstMember ==
   Rendered("create_switch") /\ call.how \in {"eg_target", "lfo_wave", "lfo_mode", "lfo_target"} =>
      \A sw \in Switches :
         sw.field = call.how =>
            /\ HighlightedCount = 1
            /\ Highlighted = {ValueLabel(sw, call.n)}

\* an oscillator set to SQR lights no LED
OscillatorSqrLightsNothing ==
   Rendered("create_switch") /\ call.how = "vco1_wave" /\ call.n = 0 /\ HighlightedCount = 0

====
